---- MODULE Spec2Model ----
(***************************************************************************)
(* Session management of jumpy (src/src/session.rs): the per-frame driver  *)
(* system, the LocalSessionRunner fixed-step accumulator, the session      *)
(* schedule (ensure_2_players, collect_local_input | update_game,          *)
(* play_sounds) and the SessionManager.                                    *)
(*                                                                         *)
(* Time is measured in integer ticks; STEP is the length of one logical    *)
(* step in ticks.  An Option<T> is a sequence of length 0 (None) or 1      *)
(* (Some).  The wall clock `now` is kept relative to the catch-up burst in *)
(* progress: the code only ever observes Instant::now() - loop_start.      *)
(***************************************************************************)
EXTENDS Integers, Sequences, FiniteSets, TLC

\* ------------------------------------------------------------------ bounds
\* 1.0 / jumpy_core::FPS, in ticks
STEP == 2
\* largest real-frame delta (time.delta_seconds_f64()), in ticks
MaxDelta == 5
\* largest wall-clock cost of one run of the session schedule, in ticks
MaxStepCost == 3
\* slots of the per-player input table (jumpy_core MAX_PLAYERS)
MaxPlayers == 3
\* SessionManager calls whose deferred commands may wait for apply_system_buffers
MaxPendingCalls == 1
\* audio events one CoreSession::advance queues at most
MaxSounds == 1
\* sum of the frame deltas fed to one LocalSessionRunner in SpecFrames
MaxTotal == 9
\* schedule runs a networked runner asks for in one frame in SpecFrames
MaxFrameSteps == 3
\* grenade spawners of the map
MaxSpawners == 2
\* fuse_time of the grenade metadata, in logical steps
FuseTime == 2
\* player nodes the scene gets in all
MaxHandles == 3

None == <<>>
Some(x) == <<x>>

Slots == 0 .. (MaxPlayers - 1)
\* the PlayerInputCollector entities (UI slots) of the process
Collectors == {0, 1}

\* ------------------------------------------------------------ data model
DefaultControl ==
    [ jump_pressed |-> FALSE, jump_just_pressed |-> FALSE,
      grab_pressed |-> FALSE, grab_just_pressed |-> FALSE,
      shoot_pressed |-> FALSE, shoot_just_pressed |-> FALSE,
      move_direction |-> 0, just_moved |-> FALSE ]

\* what the ActionState of one collector reports
RawInput == [ jump : BOOLEAN, grab : BOOLEAN, shoot : BOOLEAN, move : {0, 1} ]
Released == [ jump |-> FALSE, grab |-> FALSE, shoot |-> FALSE, move |-> 0 ]

DefaultPlayer ==
    [ active |-> FALSE, is_ai |-> FALSE, selected_player |-> None,
      control |-> DefaultControl, editor_input |-> None ]

\* CoreSession::new(info): `info` gives the active slots and the AI slots
NewCore(info) ==
    [ players |-> [ i \in Slots |->
                      [ DefaultPlayer EXCEPT !.active = (i \in info.active),
                                             !.is_ai = (i \in info.ai),
                                             !.selected_player =
                                                 IF i \in info.active THEN Some(i) ELSE None ] ],
      audio |-> <<>>,
      info |-> info ]

LocalSessionRunner_new(core) ==
    [ kind |-> "Local", core |-> core,
      accumulator |-> 0, loop_start |-> None, player_idx |-> None ]

GgrsSessionRunner_new(core, idx) ==
    [ kind |-> "Network", core |-> core,
      accumulator |-> 0, loop_start |-> None, player_idx |-> Some(idx) ]

\* ------------------------------------------------ SessionRunner (pure part)
\* SessionRunner::get_player_input: the control record of one table slot
get_player_input(s, player_idx) == s.core.players[player_idx].control

\* LocalSessionRunner::set_player_input: overwrite the control record of one slot
LocalSetPlayerInput(s, player_idx, control) ==
    [ s EXCEPT !.core.players[player_idx].control = control ]

\* the networked runner's set_player_input: the same slot of its core's table
GgrsSetPlayerInput(s, player_idx, control) ==
    [ s EXCEPT !.core.players[player_idx].control = control ]

\* SessionRunner::set_player_input, dispatched on the runner
set_player_input(s, player_idx, control) ==
    IF s.kind = "Local" THEN LocalSetPlayerInput(s, player_idx, control)
    ELSE GgrsSetPlayerInput(s, player_idx, control)

\* run_criteria with the frame delta added on every call of the loop
LocalRunCriteria_AlwaysAdds(s, d, t) ==
    LET acc == s.accumulator + d
        start == IF s.loop_start = None THEN t ELSE s.loop_start[1]
        loop_too_long == (t - start) > STEP
    IN  IF acc >= STEP
        THEN IF loop_too_long
             THEN [ runner |-> [ s EXCEPT !.accumulator = 0, !.loop_start = None ],
                    decision |-> "No", too_long |-> TRUE ]
             ELSE [ runner |-> [ s EXCEPT !.accumulator = acc - STEP,
                                          !.loop_start = Some(start) ],
                    decision |-> "YesAndCheckAgain", too_long |-> FALSE ]
        ELSE [ runner |-> [ s EXCEPT !.accumulator = acc, !.loop_start = None ],
               decision |-> "No", too_long |-> FALSE ]

\* run_criteria asking for a step without paying for it from the accumulator
LocalRunCriteria_NeverSubtracts(s, d, t) ==
    LET acc == IF s.loop_start = None THEN s.accumulator + d ELSE s.accumulator
        start == IF s.loop_start = None THEN t ELSE s.loop_start[1]
        loop_too_long == (t - start) > STEP
    IN  IF acc >= STEP
        THEN IF loop_too_long
             THEN [ runner |-> [ s EXCEPT !.accumulator = 0, !.loop_start = None ],
                    decision |-> "No", too_long |-> TRUE ]
             ELSE [ runner |-> [ s EXCEPT !.accumulator = acc,
                                          !.loop_start = Some(start) ],
                    decision |-> "YesAndCheckAgain", too_long |-> FALSE ]
        ELSE [ runner |-> [ s EXCEPT !.accumulator = acc, !.loop_start = None ],
               decision |-> "No", too_long |-> FALSE ]

\* run_criteria stepping on any positive debt, less than a STEP included
LocalRunCriteria_WeakGate(s, d, t) ==
    LET acc == IF s.loop_start = None THEN s.accumulator + d ELSE s.accumulator
        start == IF s.loop_start = None THEN t ELSE s.loop_start[1]
        loop_too_long == (t - start) > STEP
    IN  IF acc > 0
        THEN IF loop_too_long
             THEN [ runner |-> [ s EXCEPT !.accumulator = 0, !.loop_start = None ],
                    decision |-> "No", too_long |-> TRUE ]
             ELSE [ runner |-> [ s EXCEPT !.accumulator = acc - STEP,
                                          !.loop_start = Some(start) ],
                    decision |-> "YesAndCheckAgain", too_long |-> FALSE ]
        ELSE [ runner |-> [ s EXCEPT !.accumulator = acc, !.loop_start = None ],
               decision |-> "No", too_long |-> FALSE ]

\* run_criteria leaving the loop-start timestamp in place when the debt is paid
LocalRunCriteria_KeepsLoopStart(s, d, t) ==
    LET acc == IF s.loop_start = None THEN s.accumulator + d ELSE s.accumulator
        start == IF s.loop_start = None THEN t ELSE s.loop_start[1]
        loop_too_long == (t - start) > STEP
    IN  IF acc >= STEP
        THEN IF loop_too_long
             THEN [ runner |-> [ s EXCEPT !.accumulator = 0, !.loop_start = None ],
                    decision |-> "No", too_long |-> TRUE ]
             ELSE [ runner |-> [ s EXCEPT !.accumulator = acc - STEP,
                                          !.loop_start = Some(start) ],
                    decision |-> "YesAndCheckAgain", too_long |-> FALSE ]
        ELSE [ runner |-> [ s EXCEPT !.accumulator = acc ],
               decision |-> "No", too_long |-> FALSE ]

\* run_criteria with an abort that keeps the accumulated debt
LocalRunCriteria_KeepsDebt(s, d, t) ==
    LET acc == IF s.loop_start = None THEN s.accumulator + d ELSE s.accumulator
        start == IF s.loop_start = None THEN t ELSE s.loop_start[1]
        loop_too_long == (t - start) > STEP
    IN  IF acc >= STEP
        THEN IF loop_too_long
             THEN [ runner |-> [ s EXCEPT !.accumulator = acc, !.loop_start = None ],
                    decision |-> "No", too_long |-> TRUE ]
             ELSE [ runner |-> [ s EXCEPT !.accumulator = acc - STEP,
                                          !.loop_start = Some(start) ],
                    decision |-> "YesAndCheckAgain", too_long |-> FALSE ]
        ELSE [ runner |-> [ s EXCEPT !.accumulator = acc, !.loop_start = None ],
               decision |-> "No", too_long |-> FALSE ]

\* LocalSessionRunner::run_criteria, for a call at wall-clock instant `t` with
\* frame delta `d`: the runner afterwards and the decision
LocalRunCriteria(s, d, t) ==
    LET acc == IF s.loop_start = None THEN s.accumulator + d ELSE s.accumulator
        start == IF s.loop_start = None THEN t ELSE s.loop_start[1]
        loop_too_long == (t - start) > STEP
    IN  IF acc >= STEP
        THEN IF loop_too_long
             THEN [ runner |-> [ s EXCEPT !.accumulator = 0, !.loop_start = None ],
                    decision |-> "No", too_long |-> TRUE ]
             ELSE [ runner |-> [ s EXCEPT !.accumulator = acc - STEP,
                                          !.loop_start = Some(start) ],
                    decision |-> "YesAndCheckAgain", too_long |-> FALSE ]
        ELSE [ runner |-> [ s EXCEPT !.accumulator = acc, !.loop_start = None ],
               decision |-> "No", too_long |-> FALSE ]

\* the decisions a runner can return for this call: the Local runner's is the
\* accumulator's; the networked runner's cadence belongs to its transport
RunCriteriaOutcomes(s, d, t) ==
    IF s.kind = "Local"
    THEN { LocalRunCriteria(s, d, t) }
    ELSE { [ runner |-> s, decision |-> dec, too_long |-> FALSE ] :
             dec \in {"Yes", "No", "YesAndCheckAgain"} }

\* CoreSession::advance: one logical step, which queues n audio events
CoreAdvance(core, n) ==
    [ core EXCEPT !.audio = core.audio \o [ i \in 1 .. n |-> "PlaySound" ] ]

\* CoreSession::restart: back to the configured initial state
CoreRestart(core) == NewCore(core.info)

\* the results advance can return: a Local runner never fails
AdvanceResults(s) ==
    IF s.kind = "Local" THEN {"Ok"} ELSE {"Ok", "Disconnected"}

\* ------------------------------------------------------- schedule systems
\* ensure_2_players activating every slot of the table
ensure_2_players_AllSlots(s) ==
    IF \A i \in Slots : ~s.core.players[i].active
    THEN [ s EXCEPT !.core.players =
             [ i \in Slots |->
                 [ s.core.players[i] EXCEPT !.active = TRUE,
                                            !.selected_player = Some(i) ] ] ]
    ELSE s

\* ensure_2_players: with no slot active, slots 0 and 1 are made active and
\* given the player of the core metadata
ensure_2_players(s) ==
    IF \A i \in Slots : ~s.core.players[i].active
    THEN [ s EXCEPT !.core.players =
             [ i \in Slots |->
                 IF i \in 0 .. 1
                 THEN [ s.core.players[i] EXCEPT !.active = TRUE,
                                                 !.selected_player = Some(i) ]
                 ELSE s.core.players[i] ] ]
    ELSE s

\* the control record one collector computes from the previous record and
\* the raw action state
UpdatedControl(control, raw) ==
    [ jump_pressed |-> raw.jump,
      jump_just_pressed |-> raw.jump /\ ~control.jump_pressed,
      grab_pressed |-> raw.grab,
      grab_just_pressed |-> raw.grab /\ ~control.grab_pressed,
      shoot_pressed |-> raw.shoot,
      shoot_just_pressed |-> raw.shoot /\ ~control.shoot_pressed,
      move_direction |-> raw.move,
      just_moved |-> ~(control.move_direction > 0) /\ (raw.move > 0) ]

\* one iteration of the loop over the collectors
CollectOne(s, player_idx, raw) ==
    LET network_player_idx == s.player_idx
        is_ai == s.core.players[player_idx].is_ai
    IN  IF (player_idx # 0 /\ network_player_idx # None) \/ is_ai
        THEN s
        ELSE LET control == UpdatedControl(get_player_input(s, player_idx), raw)
                 target == IF network_player_idx # None
                           THEN network_player_idx[1] ELSE player_idx
             IN  set_player_input(s, target, control)

RECURSIVE CollectAll(_, _, _)
CollectAll(s, raws, todo) ==
    IF todo = {} THEN s
    ELSE LET i == CHOOSE x \in todo : \A y \in todo : x <= y
         IN  CollectAll(CollectOne(s, i, raws[i]), raws, todo \ {i})

\* the editor-input part taking the pending payload whatever the runner
TakeEditorInput_AnyRunner(s, editor) ==
    [ s EXCEPT !.core.players[0].editor_input = editor ]

\* the editor-input part: only a LocalSessionRunner takes the pending payload
TakeEditorInput(s, editor) ==
    IF s.kind = "Local"
    THEN [ s EXCEPT !.core.players[0].editor_input = editor ]
    ELSE s

\* collect_local_input: the session afterwards
collect_local_input(s, raws, editor) ==
    CollectAll(TakeEditorInput(s, editor), raws, Collectors)

\* play_sounds: the queue is drained
play_sounds(s) == [ s EXCEPT !.core.audio = <<>> ]

\* ------------------------------------------------------------------ state
VARIABLES
    session,              \* Option<Session>: the Session resource
    menu_camera,          \* Camera::is_active of the MenuCamera entities
    engine_state,         \* State<EngineState>
    in_game_state,        \* State<InGameState>
    next_engine_state,    \* NextState<EngineState>
    next_in_game_state,   \* NextState<InGameState>
    commands,             \* deferred commands waiting for apply_system_buffers
    current_editor_input, \* the CurrentEditorInput resource
    action_state,         \* the ActionState<PlayerAction> of each collector
    pc,                   \* position of the driver system
    should_run,           \* the decision the driver is acting on
    pending,              \* systems of the session schedule still to run
    delta,                \* Time::delta of the real frame in progress
    now,                  \* wall clock, relative to the burst in progress
    disconnected,         \* advance returned Disconnected and no Session was created since
    total_delta,          \* sum of the frame deltas the runner accumulated
    steps,                \* logical steps the LocalSessionRunner fired
    aborted,              \* a catch-up-too-slow abort has occurred
    frame_collects,       \* collect_local_input runs of the frame in progress
    frame_advances        \* advance calls of the frame in progress

\* the core world of one match, as the grenade systems see it
VARIABLES
    hydrated,             \* MapElementHydrated of each grenade spawner
    element_assets,       \* whether the ElementMeta of a spawner's handle is available
    grenades,             \* the live grenade entities, in entity order
    command_queue,        \* the core's deferred commands
    audio_events,         \* AudioEvents queued by the step in progress
    spawned_regions,      \* damage regions spawned by the step in progress
    stage                 \* position in the core step

elements == << hydrated, element_assets, grenades, command_queue, audio_events,
               spawned_regions, stage >>

\* the scene of a match, as the particle controllers see it
VARIABLES
    scene,                \* the player node behind each Handle<Player>
    active,               \* ParticleControllers.active, by key
    spawned_pairs         \* (player id, params id) pairs spawned and not removed

particles == << scene, active, spawned_pairs >>

vars == << session, menu_camera, engine_state, in_game_state, next_engine_state,
           next_in_game_state, commands, current_editor_input, action_state,
           pc, should_run, pending, delta, now, disconnected, total_delta, steps,
           aborted, frame_collects, frame_advances, elements,
          particles >>

Spawners == 1 .. MaxSpawners

Handles == 1 .. MaxHandles
\* Player.id of the players that join
PlayerIds == {1, 11}
\* ParticleControllerParams.id of the effects
ParamIds == { << "2" >>, << "1", "2" >> }
Digits == << "0", "1", "2", "3", "4", "5", "6", "7", "8", "9" >>

\* the scene before the match: no player node, no controller
ParticlesInit ==
    /\ scene = [ h \in Handles |-> [ alive |-> FALSE, id |-> 0, weapon_effect |-> FALSE ] ]
    /\ active = << >>
    /\ spawned_pairs = {}

\* the core world before its first step: nothing hydrated, no metadata loaded
ElementsInit ==
    /\ hydrated = [ s \in Spawners |-> FALSE ]
    /\ element_assets = [ s \in Spawners |-> FALSE ]
    /\ grenades = <<>>
    /\ command_queue = <<>>
    /\ audio_events = <<>>
    /\ spawned_regions = 0
    /\ stage = "PreUpdate"

\* everything of the session layer
session_layer ==
    << session, menu_camera, engine_state, in_game_state, next_engine_state,
       next_in_game_state, commands, current_editor_input, action_state,
       pc, should_run, pending, delta, now, disconnected, total_delta, steps,
       aborted, frame_collects, frame_advances >>

presentation == << menu_camera, engine_state, in_game_state, next_engine_state,
                   next_in_game_state >>
driver == << pc, should_run, pending, delta, now >>
counters == << total_delta, steps, aborted, frame_collects, frame_advances >>
inputs == << current_editor_input, action_state >>

\* the systems JumpySessionPlugin::build adds to session_schedule;
\* collect_local_input stands for the piped collect_local_input.pipe(update_game)
Systems == {"ensure_2_players", "collect_local_input", "play_sounds"}

\* the CoreSessionInfo values a local match is started with: the active slots
\* and the AI slots (none selected, as from the editor, or a player and an AI)
SessionInfos ==
    { [ active |-> {}, ai |-> {} ], [ active |-> {0, 1}, ai |-> {1} ] }

\* the CoreSessionInfo a network match is started with: two human players
NetworkInfos == { [ active |-> {0, 1}, ai |-> {} ] }

in_correct_state == engine_state = "InGame" /\ in_game_state = "Playing"

Init ==
    /\ session = None
    /\ menu_camera = TRUE
    /\ engine_state = "MainMenu"
    /\ in_game_state = "Playing"
    /\ next_engine_state = None
    /\ next_in_game_state = None
    /\ commands = <<>>
    /\ current_editor_input = None
    /\ action_state = [ c \in Collectors |-> Released ]
    /\ pc = "idle"
    /\ should_run = "No"
    /\ pending = {}
    /\ delta = 0
    /\ now = 0
    /\ disconnected = FALSE
    /\ total_delta = 0
    /\ steps = 0
    /\ aborted = FALSE
    /\ frame_collects = 0
    /\ frame_advances = 0
    /\ ElementsInit
    /\ ParticlesInit

\* -------------------------------------------------------- SessionManager
\* the SessionManager calls whose deferred commands are still queued
PendingCalls(q) ==
    Cardinality({ i \in DOMAIN q : q[i].cmd \in {"insert_session", "remove_session"} })

\* SessionManager::start_local
start_local(info) ==
    /\ pc = "idle"
    /\ PendingCalls(commands) < MaxPendingCalls
    /\ commands' = Append(commands,
                     [ cmd |-> "insert_session",
                       arg |-> Some(LocalSessionRunner_new(NewCore(info))) ])
    /\ menu_camera' = FALSE
    /\ UNCHANGED << session, engine_state, in_game_state, next_engine_state,
                    next_in_game_state, inputs, driver,
                    disconnected, counters >>

\* SessionManager::start_network
start_network(info, idx) ==
    /\ pc = "idle"
    /\ PendingCalls(commands) < MaxPendingCalls
    /\ commands' = commands \o
         << [ cmd |-> "insert_session",
              arg |-> Some(GgrsSessionRunner_new(NewCore(info), idx)) ],
            [ cmd |-> "insert_next_in_game_state", arg |-> Some("Playing") ],
            [ cmd |-> "insert_next_engine_state", arg |-> Some("InGame") ] >>
    /\ menu_camera' = FALSE
    /\ UNCHANGED << session, engine_state, in_game_state, next_engine_state,
                    next_in_game_state, inputs, driver,
                    disconnected, counters >>

\* a restart that replaces the runner by a new one around the restarted core
restart_Fresh ==
    /\ pc = "idle"
    /\ session' = IF session # None
                  THEN Some(LocalSessionRunner_new(CoreRestart(session[1].core)))
                  ELSE session
    /\ UNCHANGED << presentation, commands, inputs, driver,
                    disconnected, counters >>

\* SessionManager::restart
restart ==
    /\ pc = "idle"
    /\ session' = IF session # None
                  THEN Some([ session[1] EXCEPT !.core = CoreRestart(session[1].core) ])
                  ELSE session
    /\ UNCHANGED << presentation, commands, inputs, driver,
                    disconnected, counters >>

\* a stop that leaves the menu camera as it is
stop_KeepsCamera ==
    /\ pc = "idle"
    /\ PendingCalls(commands) < MaxPendingCalls
    /\ commands' = Append(commands, [ cmd |-> "remove_session", arg |-> None ])
    /\ UNCHANGED << session, presentation, inputs, driver, disconnected, counters >>

\* SessionManager::stop
stop ==
    /\ pc = "idle"
    /\ PendingCalls(commands) < MaxPendingCalls
    /\ commands' = Append(commands, [ cmd |-> "remove_session", arg |-> None ])
    /\ menu_camera' = TRUE
    /\ UNCHANGED << session, engine_state, in_game_state, next_engine_state,
                    next_in_game_state, inputs, driver,
                    disconnected, counters >>

\* the effect of the queued commands, in order, on the resources they name
RECURSIVE ApplyQueue(_, _)
ApplyQueue(w, q) ==
    IF q = <<>> THEN w
    ELSE LET c == Head(q)
             w1 == IF c.cmd = "insert_session" THEN [ w EXCEPT !.session = c.arg ]
                   ELSE IF c.cmd = "remove_session" THEN [ w EXCEPT !.session = None ]
                   ELSE IF c.cmd = "insert_next_in_game_state"
                        THEN [ w EXCEPT !.next_in_game_state = c.arg ]
                   ELSE [ w EXCEPT !.next_engine_state = c.arg ]
         IN  ApplyQueue(w1, Tail(q))

\* apply_system_buffers: every deferred command is applied, in queue order
apply_system_buffers ==
    /\ pc = "idle"
    /\ commands # <<>>
    /\ LET w == ApplyQueue([ session |-> session,
                             next_in_game_state |-> next_in_game_state,
                             next_engine_state |-> next_engine_state ], commands)
       IN  /\ session' = w.session
           /\ next_in_game_state' = w.next_in_game_state
           /\ next_engine_state' = w.next_engine_state
           /\ disconnected' = (disconnected /\ w.session = None)
           /\ total_delta' = IF w.session = session THEN total_delta ELSE 0
           /\ steps' = IF w.session = session THEN steps ELSE 0
           /\ aborted' = IF w.session = session THEN aborted ELSE FALSE
    /\ commands' = <<>>
    /\ UNCHANGED << menu_camera, engine_state, in_game_state, inputs,
                    driver, frame_collects, frame_advances >>

\* ------------------------------------------------- presentation, outside
\* a system outside this module requests an engine state (NextState<EngineState>)
request_engine_state(e) ==
    /\ pc = "idle"
    /\ next_engine_state' = Some(e)
    /\ UNCHANGED << session, menu_camera, engine_state, in_game_state,
                    next_in_game_state, commands, inputs, driver, disconnected, counters >>

\* a system outside this module requests an in-game state (pause, resume)
request_in_game_state(g) ==
    /\ pc = "idle"
    /\ next_in_game_state' = Some(g)
    /\ UNCHANGED << session, menu_camera, engine_state, in_game_state,
                    next_engine_state, commands, inputs, driver, disconnected, counters >>

\* apply_state_transition::<EngineState> and ::<InGameState>
apply_state_transition ==
    /\ pc = "idle"
    /\ next_engine_state # None \/ next_in_game_state # None
    /\ engine_state' = IF next_engine_state # None THEN next_engine_state[1]
                       ELSE engine_state
    /\ in_game_state' = IF next_in_game_state # None THEN next_in_game_state[1]
                        ELSE in_game_state
    /\ next_engine_state' = None
    /\ next_in_game_state' = None
    /\ UNCHANGED << session, menu_camera, commands, inputs, driver, disconnected, counters >>

\* the editor stores its pending input in CurrentEditorInput
set_editor_input ==
    /\ pc = "idle"
    /\ current_editor_input = None
    /\ current_editor_input' = Some("EditorInput")
    /\ UNCHANGED << session, presentation, commands, action_state, driver,
                    disconnected, counters >>

\* ------------------------------------------------------------ the driver
\* the driver system of JumpySessionPlugin::build, a frame in which it returns
\* at once: wrong state, or no Session
driver_return ==
    /\ pc = "idle"
    /\ ~in_correct_state \/ session = None
    /\ UNCHANGED << session, presentation, commands, inputs, driver, disconnected,
                    counters >>

\* a driver that enters its loop whatever the engine and in-game state
driver_enter_AnyState(d, track) ==
    /\ pc = "idle"
    /\ session # None
    /\ track => total_delta + d <= MaxTotal
    /\ pc' = "loop"
    /\ delta' = d
    /\ frame_collects' = 0
    /\ frame_advances' = 0
    /\ UNCHANGED << session, presentation, commands, inputs, should_run, pending,
                    now, disconnected, total_delta, steps, aborted >>

\* the driver system enters its loop; the frame's Time::delta is d
driver_enter(d, track) ==
    /\ pc = "idle"
    /\ in_correct_state /\ session # None
    /\ track => total_delta + d <= MaxTotal
    /\ pc' = "loop"
    /\ delta' = d
    /\ frame_collects' = 0
    /\ frame_advances' = 0
    /\ UNCHANGED << session, presentation, commands, inputs, should_run, pending,
                    now, disconnected, total_delta, steps, aborted >>

\* where the driver goes once the schedule's systems `left` remain
AfterSystem(left) ==
    IF left # {} THEN "schedule"
    ELSE IF should_run = "Yes" THEN "idle" ELSE "loop"

\* the driver moves to position p; its locals (the decision, the frame's delta)
\* are dropped when it returns
Goto(p, decision) ==
    /\ pc' = p
    /\ should_run' = IF p = "idle" THEN "No" ELSE decision
    /\ delta' = IF p = "idle" THEN 0 ELSE delta

\* a panic unwinds the driver: nothing of the frame runs afterwards
panic ==
    /\ pc' = "panicked"
    /\ UNCHANGED << session, presentation, commands, inputs, should_run, pending,
                    delta, now, disconnected, counters >>

\* one pass of the loop: resource_scope takes the Session and calls run_criteria
run_criteria(track) ==
    /\ pc = "loop"
    /\ IF session = None
       THEN panic
       ELSE \E r \in RunCriteriaOutcomes(session[1], delta, now) :
              /\ (track /\ session[1].kind = "Network" /\ r.decision # "No")
                    => frame_advances < MaxFrameSteps
              /\ session' = Some(r.runner)
              /\ Goto(IF r.decision = "No" THEN "idle" ELSE "schedule", r.decision)
              /\ pending' = IF r.decision = "No" THEN {} ELSE Systems
              /\ now' = IF r.runner.loop_start = None THEN 0 ELSE now
              /\ total_delta' = IF track /\ session[1].kind = "Local"
                                         /\ session[1].loop_start = None
                                THEN total_delta + delta ELSE total_delta
              /\ aborted' = (aborted \/ (track /\ r.too_long))
              /\ UNCHANGED << presentation, commands, inputs, disconnected, steps,
                              frame_collects, frame_advances >>

\* a system of the schedule that takes ResMut<Session> and returns: `after` is
\* the Session as the system leaves it
RunSystem(name, after) ==
    /\ pc = "schedule"
    /\ name \in pending
    /\ IF session = None
       THEN panic
       ELSE /\ session' = Some(after)
            /\ pending' = pending \ {name}
            /\ Goto(AfterSystem(pending \ {name}), should_run)
            /\ UNCHANGED << presentation, commands, inputs, now, disconnected,
                            counters >>

run_ensure_2_players == RunSystem("ensure_2_players", ensure_2_players(session[1]))

run_play_sounds == RunSystem("play_sounds", play_sounds(session[1]))

\* what collect_local_input does to the Session and to CurrentEditorInput,
\* reading the action state `raws`
CollectEffect(raws) ==
    /\ session' = Some(collect_local_input(session[1], raws, current_editor_input))
    /\ current_editor_input' = IF session[1].kind = "Local" THEN None
                               ELSE current_editor_input

\* collect_local_input added to the schedule without .pipe(update_game)
run_collect_local_input_Unpiped(track) ==
    /\ pc = "schedule"
    /\ "collect_local_input" \in pending
    /\ IF session = None
       THEN panic
       ELSE /\ CollectEffect(action_state)
            /\ pending' = pending \ {"collect_local_input"}
            /\ Goto(AfterSystem(pending \ {"collect_local_input"}), should_run)
            /\ frame_collects' = IF track THEN frame_collects + 1 ELSE frame_collects
            /\ UNCHANGED << presentation, commands, action_state, now, disconnected,
                            total_delta, steps, aborted, frame_advances >>

\* collect_local_input, the first half of the piped system; update_game follows
run_collect_local_input(track) ==
    /\ pc = "schedule"
    /\ "collect_local_input" \in pending
    /\ IF session = None
       THEN panic
       ELSE /\ CollectEffect(action_state)
            /\ pc' = "update_game"
            /\ frame_collects' = IF track THEN frame_collects + 1 ELSE frame_collects
            /\ UNCHANGED << presentation, commands, action_state, should_run, pending,
                            delta, now, disconnected, total_delta, steps, aborted,
                            frame_advances >>

\* update_game putting a newly made runner around the stepped core back
put_back_Fresh(s, n) ==
    /\ session' = Some(LocalSessionRunner_new(CoreAdvance(s.core, n)))
    /\ UNCHANGED << presentation, disconnected >>

\* update_game, advance returned Ok: the Session, stepped, goes back into the world
put_back(s, n) ==
    /\ session' = Some([ s EXCEPT !.core = CoreAdvance(s.core, n) ])
    /\ UNCHANGED << presentation, disconnected >>

\* a teardown that returns the Session to the world
teardown_KeepsSession ==
    /\ session' = session
    /\ menu_camera' = TRUE
    /\ next_engine_state' = Some("MainMenu")
    /\ next_in_game_state' = Some("Playing")
    /\ disconnected' = TRUE
    /\ UNCHANGED << engine_state, in_game_state >>

\* a teardown that does not request the main menu
teardown_StaysInGame ==
    /\ session' = None
    /\ menu_camera' = TRUE
    /\ next_in_game_state' = Some("Playing")
    /\ disconnected' = TRUE
    /\ UNCHANGED << engine_state, in_game_state, next_engine_state >>

\* update_game, advance returned Disconnected: the Session is dropped and the
\* presentation goes back to the menu
teardown ==
    /\ session' = None
    /\ menu_camera' = TRUE
    /\ next_engine_state' = Some("MainMenu")
    /\ next_in_game_state' = Some("Playing")
    /\ disconnected' = TRUE
    /\ UNCHANGED << engine_state, in_game_state >>

\* update_game: the Session is taken out of the world, advanced, and put back
\* unless advance failed
update_game(track) ==
    /\ pc = "update_game"
    /\ \E result \in AdvanceResults(session[1]), n \in 0 .. MaxSounds,
          cost \in 0 .. MaxStepCost :
          /\ IF result = "Ok" THEN put_back(session[1], n) ELSE teardown
          /\ steps' = IF track /\ session[1].kind = "Local" THEN steps + 1 ELSE steps
          /\ now' = IF session[1].loop_start = None THEN now
                    ELSE IF now + cost > STEP + 1 THEN STEP + 1 ELSE now + cost
    /\ frame_advances' = IF track THEN frame_advances + 1 ELSE frame_advances
    /\ pending' = pending \ {"collect_local_input"}
    /\ Goto(AfterSystem(pending \ {"collect_local_input"}), should_run)
    /\ UNCHANGED << commands, inputs, total_delta, aborted, frame_collects >>

\* ------------------------------------------- core step: the grenade systems
\* the grenade entity that hydrate creates for a spawner
NewIdleGrenade(spawner) ==
    [ spawner |-> spawner, lit |-> FALSE, age |-> 0, held |-> FALSE, used |-> FALSE,
      deactivated |-> FALSE ]

\* hydrate without the metadata check
ShouldHydrate_IgnoresMeta(is_hydrated, meta) == ~is_hydrated

\* hydrate, per spawner: a spawner is hydrated when it is not yet and the
\* metadata of its element is available (`meta`)
ShouldHydrate(is_hydrated, meta) == ~is_hydrated /\ meta

\* update_lit_grenades, per entity: the grenade after the pass
LitGrenadeStep(g, meta) ==
    IF g.lit /\ meta
    THEN [ g EXCEPT !.age = g.age + 1,
                    !.deactivated = g.deactivated \/ g.held ]
    ELSE g

\* the fuse compared with the age before this step's increment
Explodes_Late(g, meta) == g.lit /\ meta /\ g.age >= FuseTime

\* update_lit_grenades, per entity: it is time to explode
Explodes(g, meta) == g.lit /\ meta /\ g.age + 1 >= FuseTime

\* update_idle_grenades, per entity: the grenade after the pass
IdleGrenadeStep(g, meta) ==
    IF ~g.lit /\ meta /\ g.held
    THEN [ g EXCEPT !.deactivated = TRUE, !.used = FALSE ]
    ELSE g

\* update_idle_grenades, per entity: the held grenade is being used
Lights(g, meta) == ~g.lit /\ meta /\ g.held /\ g.used

Meta(g) == element_assets[g.spawner]

\* the grenade entities, by index, in entity order
Entities == [ i \in 1 .. Len(grenades) |-> i ]

\* hydrate (CoreStage::PreUpdate)
hydrate ==
    /\ stage = "PreUpdate"
    /\ LET spawners == SelectSeq([ s \in Spawners |-> s ],
                                 LAMBDA s : ShouldHydrate(hydrated[s], element_assets[s]))
       IN  /\ hydrated' = [ s \in Spawners |->
                              hydrated[s] \/ ShouldHydrate(hydrated[s], element_assets[s]) ]
           /\ grenades' = grenades \o
                            [ k \in 1 .. Len(spawners) |-> NewIdleGrenade(spawners[k]) ]
    /\ stage' = "Update"
    /\ UNCHANGED << element_assets, command_queue, audio_events, spawned_regions,
                    session_layer, particles >>

\* CoreStage::Update, the player systems: a player picks the grenade up
grab(i) ==
    /\ stage = "Update"
    /\ ~grenades[i].held
    /\ grenades' = [ grenades EXCEPT ![i].held = TRUE ]
    /\ UNCHANGED << hydrated, element_assets, command_queue, audio_events,
                    spawned_regions, stage, session_layer, particles >>

\* CoreStage::Update, the player systems: the player lets go of the grenade
drop(i) ==
    /\ stage = "Update"
    /\ grenades[i].held
    /\ grenades' = [ grenades EXCEPT ![i].held = FALSE ]
    /\ UNCHANGED << hydrated, element_assets, command_queue, audio_events,
                    spawned_regions, stage, session_layer, particles >>

\* CoreStage::Update, the player systems: the player uses the held idle
\* grenade (ItemUsed)
use(i) ==
    /\ stage = "Update"
    /\ grenades[i].held /\ ~grenades[i].used /\ ~grenades[i].lit
    /\ grenades' = [ grenades EXCEPT ![i].used = TRUE ]
    /\ UNCHANGED << hydrated, element_assets, command_queue, audio_events,
                    spawned_regions, stage, session_layer, particles >>

\* update_lit_grenades (CoreStage::PostUpdate, first system)
update_lit_grenades ==
    /\ stage = "Update"
    /\ LET exploding ==
             SelectSeq(Entities, LAMBDA i : Explodes(grenades[i], Meta(grenades[i])))
       IN  /\ grenades' = [ i \in 1 .. Len(grenades) |->
                              LitGrenadeStep(grenades[i], Meta(grenades[i])) ]
           /\ audio_events' = audio_events \o
                                [ k \in 1 .. Len(exploding) |-> "explosion_sound" ]
           /\ hydrated' = [ s \in Spawners |->
                              hydrated[s] /\ ~\E k \in 1 .. Len(exploding) :
                                                 grenades[exploding[k]].spawner = s ]
           /\ command_queue' = command_queue \o
                                 [ k \in 1 .. Len(exploding) |->
                                     [ cmd |-> "explode", entity |-> exploding[k] ] ]
    /\ stage' = "PostUpdate"
    /\ UNCHANGED << element_assets, spawned_regions, session_layer, particles >>

\* update_idle_grenades (CoreStage::PostUpdate, second system)
update_idle_grenades ==
    /\ stage = "PostUpdate"
    /\ LET lighting ==
             SelectSeq(Entities, LAMBDA i : Lights(grenades[i], Meta(grenades[i])))
       IN  /\ grenades' = [ i \in 1 .. Len(grenades) |->
                              IdleGrenadeStep(grenades[i], Meta(grenades[i])) ]
           /\ audio_events' = audio_events \o
                                [ k \in 1 .. Len(lighting) |-> "fuse_sound" ]
           /\ command_queue' = command_queue \o
                                 [ k \in 1 .. Len(lighting) |->
                                     [ cmd |-> "light", entity |-> lighting[k] ] ]
    /\ stage' = "Commands"
    /\ UNCHANGED << hydrated, element_assets, spawned_regions, session_layer, particles >>

\* the entities a queue of commands names with command `cmd`
Targets(q, cmd) == { q[k].entity : k \in { j \in DOMAIN q : q[j].cmd = cmd } }

\* the deferred commands of the stage are applied: the closures queued by
\* update_idle_grenades (idle -> lit, age 0) and by update_lit_grenades (kill
\* the grenade, spawn the damage region and the explosion animation)
apply_commands ==
    /\ stage = "Commands"
    /\ LET tagged == [ i \in 1 .. Len(grenades) |->
                         [ dead |-> i \in Targets(command_queue, "explode"),
                           g |-> IF i \in Targets(command_queue, "light")
                                 THEN [ grenades[i] EXCEPT !.lit = TRUE, !.age = 0 ]
                                 ELSE grenades[i] ] ]
           alive == SelectSeq(tagged, LAMBDA t : ~t.dead)
       IN  /\ grenades' = [ i \in 1 .. Len(alive) |-> alive[i].g ]
           /\ spawned_regions' =
                 spawned_regions + Cardinality(Targets(command_queue, "explode"))
    /\ command_queue' = <<>>
    /\ stage' = "Done"
    /\ UNCHANGED << hydrated, element_assets, audio_events, session_layer, particles >>

\* between steps: the asset server makes a spawner's metadata available, or
\* takes it away
set_element_meta(s) ==
    /\ stage = "Done"
    /\ element_assets' = [ element_assets EXCEPT ![s] = ~element_assets[s] ]
    /\ UNCHANGED << hydrated, grenades, command_queue, audio_events,
                    spawned_regions, stage, session_layer, particles >>

\* between steps: the audio events are drained, the next step begins
next_step ==
    /\ stage = "Done"
    /\ audio_events' = <<>>
    /\ spawned_regions' = 0
    /\ stage' = "PreUpdate"
    /\ UNCHANGED << hydrated, element_assets, grenades, command_queue,
                    session_layer, particles >>

\* ------------------------------------------------- the particle controllers
\* u8::to_string: the decimal digits of n, most significant first
RECURSIVE to_string(_)
to_string(n) ==
    IF n < 10 THEN << Digits[n + 1] >>
    ELSE to_string(n \div 10) \o << Digits[(n % 10) + 1] >>

\* the key that tells whose controller, and of which effect, still holds when
\* the two parts are kept apart
Hash_Paired(id, params_id) == << to_string(id), params_id >>

\* the key of a controller: the player's id, as text, followed by the id of
\* the parameters
Hash(id, params_id) == to_string(id) \o params_id

\* scene::try_get_node(handle)
try_get_node(handle) ==
    IF scene[handle].alive THEN Some(scene[handle]) ELSE None

\* a controller just spawned for the owner
NewController(owner, params_id) ==
    [ handler |-> owner, params |-> params_id, updated |-> "never" ]

\* the scene gets a player node, under a handle never used before
add_player(id) ==
    /\ \E handle \in Handles :
          /\ ~scene[handle].alive
          /\ \A h \in Handles : h >= handle <=> scene[h].id = 0
          /\ \A h \in Handles : scene[h].alive => scene[h].id # id
          /\ scene' = [ scene EXCEPT ![handle] =
                          [ alive |-> TRUE, id |-> id, weapon_effect |-> FALSE ] ]
    /\ UNCHANGED << active, spawned_pairs, session_layer, elements >>

\* the scene loses a player node; its handle stays invalid ever after
remove_player(handle) ==
    /\ scene[handle].alive
    /\ scene' = [ scene EXCEPT ![handle].alive = FALSE ]
    /\ UNCHANGED << active, spawned_pairs, session_layer, elements >>

\* the player picks up, or loses, a weapon with an effect position
set_weapon_effect(handle) ==
    /\ scene[handle].alive
    /\ scene' = [ scene EXCEPT ![handle].weapon_effect = ~scene[handle].weapon_effect ]
    /\ UNCHANGED << active, spawned_pairs, session_layer, elements >>

\* ParticleControllers::spawn_or_update(owner, params)
spawn_or_update(owner, params_id) ==
    /\ IF try_get_node(owner) # None
       THEN LET player == try_get_node(owner)[1]
                hash == Hash(player.id, params_id)
            IN  /\ IF hash \in DOMAIN active
                   THEN active' =
                          IF player.weapon_effect
                          THEN [ active EXCEPT ![hash].updated = "spawn_or_update" ]
                          ELSE active
                   ELSE active' =
                          [ k \in DOMAIN active \cup {hash} |->
                              IF k = hash THEN NewController(owner, params_id)
                              ELSE active[k] ]
                /\ spawned_pairs' = spawned_pairs \cup { << player.id, params_id >> }
       ELSE UNCHANGED << active, spawned_pairs >>
    /\ UNCHANGED << scene, session_layer, elements >>

\* network_update, per controller: need_to_delete
need_to_delete(controller) ==
    ~(/\ try_get_node(controller.handler) # None
      /\ try_get_node(controller.handler)[1].weapon_effect)

\* ParticleControllers::network_update
network_update ==
    /\ LET controllers_to_delete == { k \in DOMAIN active : need_to_delete(active[k]) }
       IN  /\ active' = [ k \in DOMAIN active \ controllers_to_delete |->
                            [ active[k] EXCEPT !.updated = "network_update" ] ]
           /\ spawned_pairs' =
                 { p \in spawned_pairs : Hash(p[1], p[2]) \notin controllers_to_delete }
    /\ UNCHANGED << scene, session_layer, elements >>

\* ---------------------------------------------------------- specifications
\* the whole program: SessionManager calls, state requests and driver frames
Next ==
    /\ UNCHANGED << elements, particles >>
    /\ \/ \E info \in SessionInfos : start_local(info)
       \/ \E info \in NetworkInfos : start_network(info, 1)
       \/ restart
       \/ stop
       \/ apply_system_buffers
       \/ \E e \in {"MainMenu", "InGame"} : request_engine_state(e)
       \/ \E g \in {"Playing", "Paused"} : request_in_game_state(g)
       \/ apply_state_transition
       \/ driver_return
       \/ \E d \in 0 .. MaxDelta : driver_enter(d, FALSE)
       \/ run_criteria(FALSE)
       \/ run_ensure_2_players
       \/ run_collect_local_input(FALSE)
       \/ update_game(FALSE)
       \/ run_play_sounds

Spec == Init /\ [][Next]_vars

\* a match in progress, frame after frame, with the frame's deltas, collections
\* and steps counted
InitFrames ==
    /\ session \in { Some(LocalSessionRunner_new(NewCore(info))) : info \in SessionInfos }
                   \cup { Some(GgrsSessionRunner_new(NewCore(info), 1)) : info \in NetworkInfos }
    /\ menu_camera = FALSE
    /\ engine_state = "InGame"
    /\ in_game_state = "Playing"
    /\ next_engine_state = None
    /\ next_in_game_state = None
    /\ commands = <<>>
    /\ current_editor_input = None
    /\ action_state = [ c \in Collectors |-> Released ]
    /\ pc = "idle"
    /\ should_run = "No"
    /\ pending = {}
    /\ delta = 0
    /\ now = 0
    /\ disconnected = FALSE
    /\ total_delta = 0
    /\ steps = 0
    /\ aborted = FALSE
    /\ frame_collects = 0
    /\ frame_advances = 0
    /\ ElementsInit
    /\ ParticlesInit

NextFrames ==
    /\ UNCHANGED << elements, particles >>
    /\ \/ restart
       \/ driver_return
       \/ \E d \in 0 .. MaxDelta : driver_enter(d, TRUE)
       \/ run_criteria(TRUE)
       \/ run_ensure_2_players
       \/ run_collect_local_input(TRUE)
       \/ update_game(TRUE)
       \/ run_play_sounds

SpecFrames == InitFrames /\ [][NextFrames]_vars

\* the frames of a match without the counters, the driver running to the end
\* of the frame it has entered: the driver system is straight-line code that
\* nothing preempts
DriverStep ==
    \/ run_criteria(FALSE)
    \/ run_ensure_2_players
    \/ run_collect_local_input(FALSE)
    \/ update_game(FALSE)
    \/ run_play_sounds

NextLoop ==
    /\ UNCHANGED << elements, particles >>
    /\ \/ driver_return
       \/ \E d \in 0 .. MaxDelta : driver_enter(d, FALSE)
       \/ DriverStep

SpecLoop ==
    /\ InitFrames
    /\ [][NextLoop]_vars
    /\ WF_vars(DriverStep /\ UNCHANGED << elements, particles >>)

\* no match, no frame in progress
SessionLayerIdle ==
    /\ session = None
    /\ menu_camera = TRUE
    /\ engine_state = "MainMenu"
    /\ in_game_state = "Playing"
    /\ next_engine_state = None
    /\ next_in_game_state = None
    /\ commands = <<>>
    /\ current_editor_input = None
    /\ action_state = [ c \in Collectors |-> Released ]
    /\ pc = "idle"
    /\ should_run = "No"
    /\ pending = {}
    /\ delta = 0
    /\ now = 0
    /\ disconnected = FALSE
    /\ total_delta = 0
    /\ steps = 0
    /\ aborted = FALSE
    /\ frame_collects = 0
    /\ frame_advances = 0

\* the core world alone: step after step of the grenade systems, with the
\* players' item actions in between
InitElements == ElementsInit /\ ParticlesInit /\ SessionLayerIdle

NextElements ==
    \/ hydrate
    \/ \E i \in DOMAIN grenades : grab(i)
    \/ \E i \in DOMAIN grenades : drop(i)
    \/ \E i \in DOMAIN grenades : use(i)
    \/ update_lit_grenades
    \/ update_idle_grenades
    \/ apply_commands
    \/ \E s \in Spawners : set_element_meta(s)
    \/ next_step

SpecElements == InitElements /\ [][NextElements]_vars

\* the particle controllers alone: players come and go, effects are spawned,
\* and the controllers get their network update
NextParticles ==
    \/ \E id \in PlayerIds : add_player(id)
    \/ \E handle \in Handles : remove_player(handle)
    \/ \E handle \in Handles : set_weapon_effect(handle)
    \/ \E owner \in Handles, params_id \in ParamIds : spawn_or_update(owner, params_id)
    \/ network_update

SpecParticles == InitElements /\ [][NextParticles]_vars

\* input collection on its own: a session of either kind, any slots AI, and
\* pass after pass of collect_local_input over freshly updated action states
InputInfos == { [ active |-> {0, 1}, ai |-> a ] : a \in SUBSET Slots }

InitInput ==
    /\ \E info \in InputInfos :
          session \in { Some(LocalSessionRunner_new(NewCore(info))) }
                      \cup { Some(GgrsSessionRunner_new(NewCore(info), k)) : k \in Slots }
    /\ menu_camera = FALSE
    /\ engine_state = "InGame"
    /\ in_game_state = "Playing"
    /\ next_engine_state = None
    /\ next_in_game_state = None
    /\ commands = <<>>
    /\ current_editor_input = None
    /\ action_state = [ c \in Collectors |-> Released ]
    /\ pc = "idle"
    /\ should_run = "No"
    /\ pending = {}
    /\ delta = 0
    /\ now = 0
    /\ disconnected = FALSE
    /\ total_delta = 0
    /\ steps = 0
    /\ aborted = FALSE
    /\ frame_collects = 0
    /\ frame_advances = 0
    /\ ElementsInit
    /\ ParticlesInit

\* the input devices are polled, then collect_local_input runs once
input_pass(raws) ==
    /\ session # None
    /\ action_state' = raws
    /\ CollectEffect(raws)
    /\ UNCHANGED << presentation, commands, driver, disconnected, counters >>

\* the action states polled: every combination for UI slot 0, jump and move
\* for the other collectors
PolledInputs ==
    { raws \in [ Collectors -> RawInput ] :
        \A c \in Collectors \ {0} : ~raws[c].grab /\ ~raws[c].shoot }

NextInput ==
    /\ UNCHANGED << elements, particles >>
    /\ \/ \E raws \in PolledInputs : input_pass(raws)
       \/ set_editor_input

SpecInput == InitInput /\ [][NextInput]_vars

\* ------------------------------------------------------------------ claims
IsLocal == session # None /\ session[1].kind = "Local"
IsNetwork == session # None /\ session[1].kind = "Network"

(* C1: for a Local session driven by the driver loop, the logical steps fired *)
(* never exceed floor(T / STEP), T the sum of the frame deltas so far, and    *)
(* equal floor(T / STEP) at the end of every frame while no                   *)
(* catch-up-too-slow abort has occurred.                                      *)
FixedStepFidelity ==
    IsLocal =>
        /\ steps <= total_delta \div STEP
        /\ (pc = "idle" /\ ~aborted) => steps = total_delta \div STEP

\* several frames have run, without an abort, and left a remainder
FixedStepFidelityWitness ==
    /\ IsLocal /\ pc = "idle" /\ ~aborted
    /\ steps >= 3 /\ total_delta % STEP # 0

(* C2: a run_criteria call that finds accumulator >= STEP and more than one   *)
(* STEP of wall-clock time elapsed since the recorded loop start returns No,  *)
(* zeroes the accumulator and clears loop_start: the driver leaves its loop   *)
(* without running the schedule, and no step fires.                           *)
AbortStopsBurst ==
    [][ ( /\ pc = "loop" /\ IsLocal
          /\ session[1].loop_start # None
          /\ session[1].accumulator >= STEP
          /\ now - session[1].loop_start[1] > STEP )
        => ( /\ session' # None
             /\ session'[1].accumulator = 0
             /\ session'[1].loop_start = None
             /\ pc' = "idle" /\ pending' = {}
             /\ steps' = steps ) ]_vars

\* a burst has just been aborted
AbortStopsBurstWitness ==
    /\ IsLocal /\ aborted /\ pc = "idle"
    /\ session[1].accumulator = 0 /\ steps >= 1

(* C3: when advance returns Disconnected, the Session no longer exists        *)
(* afterwards and the menu camera is active; as long as no start has created  *)
(* a new Session there is none, so no run_criteria and no advance is called.  *)
DisconnectTeardown ==
    /\ [](disconnected => (session = None /\ pc # "update_game"))
    /\ [][ (~disconnected /\ disconnected') => (session' = None /\ menu_camera') ]_vars
    /\ [][ (disconnected /\ session' # None) => ~disconnected' ]_vars

\* a disconnect has happened and the frame has unwound
DisconnectTeardownWitness ==
    disconnected /\ session = None /\ menu_camera /\ pc = "idle"

(* C4 as stated: on Disconnected, update_game requests the main menu engine   *)
(* state and an in-game state that is not a playing state.                    *)
DisconnectRequestsNotPlaying ==
    [][ (~disconnected /\ disconnected')
        => ( /\ next_engine_state' = Some("MainMenu")
             /\ next_in_game_state' # Some("Playing") ) ]_vars

(* C4, amended: on Disconnected, update_game requests EngineState::MainMenu   *)
(* and InGameState::Playing; the requested pair is not a playing state of the *)
(* driver, which needs EngineState::InGame.                                   *)
DisconnectRequestsMainMenu ==
    [][ (~disconnected /\ disconnected')
        => ( /\ next_engine_state' = Some("MainMenu")
             /\ next_in_game_state' = Some("Playing")
             /\ ~(next_engine_state'[1] = "InGame"
                    /\ next_in_game_state'[1] = "Playing") ) ]_vars

\* the requests of a disconnect are waiting for apply_state_transition
DisconnectRequestsMainMenuWitness ==
    /\ disconnected /\ engine_state = "InGame"
    /\ next_engine_state = Some("MainMenu") /\ next_in_game_state = Some("Playing")

(* C5: in every reachable state a Session is absent if and only if the menu   *)
(* camera is active, also between a start or stop call and the application of *)
(* its deferred command.                                                      *)
SessionAbsentIffMenuCamera ==
    (session = None) <=> menu_camera

(* C6: whenever advance returns Ok, update_game puts the same Session back:   *)
(* the same runner, its accumulator, loop_start and player index unchanged,   *)
(* its core changed by nothing but the step.                                  *)
SuccessPutsSessionBack ==
    [][ (pc = "update_game" /\ ~disconnected')
        => ( /\ session' # None
             /\ session'[1].kind = session[1].kind
             /\ session'[1].accumulator = session[1].accumulator
             /\ session'[1].loop_start = session[1].loop_start
             /\ session'[1].player_idx = session[1].player_idx
             /\ session'[1].core.players = session[1].core.players
             /\ session'[1].core.info = session[1].core.info
             /\ \E n \in 0 .. MaxSounds :
                   session'[1].core = CoreAdvance(session[1].core, n) ) ]_vars

\* update_game has run in this schedule run and the Session, with time debt
\* left and a sound queued by the step, is in the world
SuccessPutsSessionBackWitness ==
    /\ pc = "schedule" /\ "collect_local_input" \notin pending
    /\ session # None
    /\ session[1].accumulator > 0 /\ session[1].loop_start # None
    /\ Len(session[1].core.audio) > 0

(* C7: in every run of the session schedule the systems run in the order      *)
(* ensure_2_players, collect_local_input, update_game, play_sounds:           *)
(* play_sounds never before update_game, collect_local_input never before     *)
(* ensure_2_players.                                                          *)
ScheduleRunsInFixedOrder ==
    pc \in {"schedule", "update_game"} =>
        /\ "play_sounds" \notin pending => "collect_local_input" \notin pending
        /\ ("collect_local_input" \notin pending \/ pc = "update_game")
              => "ensure_2_players" \notin pending

TargetSlot(c) ==
    IF session[1].player_idx # None THEN session[1].player_idx[1] ELSE c

\* the collectors that stand for a local participant of the match
LocalCollectors ==
    IF session[1].player_idx # None THEN {0} ELSE Collectors

Players == session[1].core.players

\* the step is a pass of collect_local_input, not the editor storing its input
CollectionStep == ~(current_editor_input = None /\ current_editor_input' # None)

(* C9: for a locally controlled non-AI slot, jump_just_pressed (and likewise  *)
(* grab_just_pressed, shoot_just_pressed) is true on exactly the collection   *)
(* where the raw button goes from released to pressed, and false on every     *)
(* later collection while the button stays held.  (Stated for the slots whose  *)
(* collector's UI slot is not flagged is_ai either, so that the collector     *)
(* does write.)                                                               *)
EdgeOnlyOnPress ==
    [][ \A c \in LocalCollectors :
          LET t == TargetSlot(c)
          IN  (CollectionStep /\ ~Players[t].is_ai /\ ~Players[c].is_ai) =>
                /\ session'[1].core.players[t].control.jump_just_pressed
                      = (action_state'[c].jump /\ ~action_state[c].jump)
                /\ session'[1].core.players[t].control.grab_just_pressed
                      = (action_state'[c].grab /\ ~action_state[c].grab)
                /\ session'[1].core.players[t].control.shoot_just_pressed
                      = (action_state'[c].shoot /\ ~action_state[c].shoot) ]_vars

\* what the raw action state says of a control record's level fields
MatchesRaw(control, raw) ==
    /\ control.jump_pressed = raw.jump
    /\ control.grab_pressed = raw.grab
    /\ control.shoot_pressed = raw.shoot
    /\ control.move_direction = raw.move

(* C10: with a networked runner of local index k, one pass writes   *)
(* the input collected for UI slot 0 into slot k and leaves the control       *)
(* record of every other slot unchanged.                                      *)
NetworkInputLandsInSlotK ==
    [][ (IsNetwork /\ CollectionStep) =>
          LET k == session[1].player_idx[1]
          IN  /\ MatchesRaw(session'[1].core.players[k].control, action_state'[0])
              /\ \A j \in Slots \ {k} :
                    session'[1].core.players[j].control = Players[j].control ]_vars

\* what one pass of a networked runner of local index k does do: the input of
\* UI slot 0 lands in slot k unless slot 0 is flagged is_ai, and then nothing
\* is written; no slot other than k is written in either case
NetworkInputLandsInSlotKUnlessAi ==
    [][ (IsNetwork /\ CollectionStep) =>
          LET k == session[1].player_idx[1]
          IN  /\ ~Players[0].is_ai =>
                    MatchesRaw(session'[1].core.players[k].control, action_state'[0])
              /\ Players[0].is_ai =>
                    session'[1].core.players[k].control = Players[k].control
              /\ \A j \in Slots \ {k} :
                    session'[1].core.players[j].control = Players[j].control ]_vars

\* local index 2: the jump of UI slot 0 is in slot 2, slots 0 and 1 untouched
NetworkInputLandsInSlotKWitness ==
    /\ IsNetwork /\ session[1].player_idx = Some(2)
    /\ action_state[0].jump /\ action_state[1].jump
    /\ Players[2].control.jump_pressed
    /\ Players[0].control = DefaultControl /\ Players[1].control = DefaultControl

\* the edge property of C9 for the sessions in which a collector reads the slot
\* it writes: a Local session, or a networked one of local index 0
EdgeOnlyOnPressOwnSlot ==
    [][ (CollectionStep /\ session[1].player_idx \in {None, Some(0)}) =>
          \A c \in LocalCollectors :
            ~Players[c].is_ai =>
                /\ session'[1].core.players[c].control.jump_just_pressed
                      = (action_state'[c].jump /\ ~action_state[c].jump)
                /\ session'[1].core.players[c].control.grab_just_pressed
                      = (action_state'[c].grab /\ ~action_state[c].grab)
                /\ session'[1].core.players[c].control.shoot_just_pressed
                      = (action_state'[c].shoot /\ ~action_state[c].shoot) ]_vars

(* C11: a pass of collect_local_input never modifies the control record of an *)
(* input-table slot whose is_ai flag is set, in a Local session and in a      *)
(* networked session of any local index k.                                    *)
NeverWritesAiSlot ==
    [][ CollectionStep =>
          \A j \in Slots :
            Players[j].is_ai =>
                session'[1].core.players[j].control = Players[j].control ]_vars

\* the property of C11 for the sessions in which the slot checked is the slot
\* written: a Local session, or a networked one of local index 0
NeverWritesAiSlotOwnSlot ==
    [][ (CollectionStep /\ session[1].player_idx \in {None, Some(0)}) =>
          \A j \in Slots :
            Players[j].is_ai =>
                session'[1].core.players[j].control = Players[j].control ]_vars

\* a networked session of local index 1 whose slot 1 is an AI slot holds the
\* local player's jump in slot 1
NeverWritesAiSlotWitness ==
    /\ IsNetwork /\ session[1].player_idx = Some(1)
    /\ Players[1].is_ai /\ ~Players[0].is_ai
    /\ Players[1].control.jump_pressed

(* C12: the editor payload is merged into slot 0 only when the runner is      *)
(* Local: in a networked session a pass leaves every slot's editor_input      *)
(* unchanged and does not consume CurrentEditorInput; in a Local session it   *)
(* moves the pending payload (or none) into slot 0 and leaves                 *)
(* CurrentEditorInput empty.                                                  *)
EditorInputOnlyLocal ==
    [][ CollectionStep =>
          /\ IsLocal =>
               /\ session'[1].core.players[0].editor_input = current_editor_input
               /\ current_editor_input' = None
               /\ \A j \in Slots \ {0} :
                     session'[1].core.players[j].editor_input = Players[j].editor_input
          /\ IsNetwork =>
               /\ current_editor_input' = current_editor_input
               /\ \A j \in Slots :
                     session'[1].core.players[j].editor_input = Players[j].editor_input ]_vars

\* a Local session has taken the editor's payload into slot 0
EditorInputOnlyLocalWitness ==
    /\ IsLocal /\ current_editor_input = None
    /\ Players[0].editor_input = Some("EditorInput")

\* the step is a run of the ensure_2_players system
EnsureStep ==
    /\ pc = "schedule" /\ session # None
    /\ "ensure_2_players" \in pending /\ "ensure_2_players" \notin pending'

(* C13: if no player slot is active, one ensure_2_players pass makes slots 0  *)
(* and 1 active and leaves every slot of index >= 2 inactive; if some slot is *)
(* active already, the pass changes no slot's active flag or selected player. *)
EnsureTwoPlayers ==
    [][ EnsureStep =>
          IF \A i \in Slots : ~Players[i].active
          THEN /\ session'[1].core.players[0].active
               /\ session'[1].core.players[1].active
               /\ \A i \in Slots \ {0, 1} : ~session'[1].core.players[i].active
          ELSE \A i \in Slots :
                 /\ session'[1].core.players[i].active = Players[i].active
                 /\ session'[1].core.players[i].selected_player
                       = Players[i].selected_player ]_vars

\* a match started with no slot selected has had its first two slots activated
EnsureTwoPlayersWitness ==
    /\ session # None /\ session[1].core.info.active = {}
    /\ "ensure_2_players" \notin pending /\ pc = "schedule"
    /\ Players[0].active /\ Players[1].active /\ ~Players[2].active

\* the step leaves the driver idle and queues or applies no command: of the
\* steps that change the Session, only SessionManager::restart is one
RestartStep == pc = "idle" /\ pc' = "idle" /\ commands' = commands

(* C14: SessionManager::restart forwards to the runner's restart and leaves   *)
(* the Session's identity intact: the same runner is there before and after   *)
(* (kind, accumulator, loop_start, player index), the menu camera is          *)
(* unchanged, and with no Session restart does nothing and creates none.      *)
RestartKeepsSession ==
    [][ RestartStep =>
          /\ session = None => session' = None
          /\ session # None =>
               /\ session' # None
               /\ session'[1].kind = session[1].kind
               /\ session'[1].accumulator = session[1].accumulator
               /\ session'[1].loop_start = session[1].loop_start
               /\ session'[1].player_idx = session[1].player_idx
               /\ session'[1].core \in { session[1].core, CoreRestart(session[1].core) }
          /\ session' # session => menu_camera' = menu_camera ]_vars

\* a Local match started with no slot selected has run a step, which made
\* slots active, and was restarted: its core is the initial one again, its
\* accumulator is kept
RestartKeepsSessionWitness ==
    /\ IsLocal /\ pc = "idle" /\ steps >= 1
    /\ session[1].core.info.active = {}
    /\ session[1].core = NewCore(session[1].core.info)
    /\ session[1].accumulator > 0

\* the queued commands that insert or remove the Session
SessionCommands(q) ==
    SelectSeq(q, LAMBDA c : c.cmd \in {"insert_session", "remove_session"})

\* the most recent SessionManager call waiting in the queue is a stop
StopIsLast(q) ==
    /\ SessionCommands(q) # <<>>
    /\ SessionCommands(q)[Len(SessionCommands(q))].cmd = "remove_session"

(* C15: stop() destroys the Session and reactivates the menu camera           *)
(* unconditionally: once its deferred command is applied no Session exists    *)
(* and the menu camera is active, whether or not a Session existed before;    *)
(* no Session appears, and so no step fires, until a start's insert is        *)
(* applied.                                                                   *)
StopDestroysSession ==
    /\ [][ (commands' = <<>> /\ StopIsLast(commands))
             => (session' = None /\ menu_camera') ]_vars
    /\ [][ (session = None /\ session' # None)
             => \E i \in DOMAIN commands : commands[i].cmd = "insert_session" ]_vars
    /\ [](pc \in {"schedule", "update_game"} /\ session = None => disconnected)
    /\ [](pc = "update_game" => session # None)

\* stop has been called on a match in progress: the menu camera is active and
\* the removal of the Session is waiting for apply_system_buffers
StopDestroysSessionWitness ==
    /\ session # None /\ engine_state = "InGame" /\ in_game_state = "Playing"
    /\ StopIsLast(commands) /\ menu_camera /\ pc = "idle"

(* C16: the audio event queue is never left non-empty across real frames: at  *)
(* the end of every pass of the driver the queue of the Session is empty,     *)
(* every event queued by the frame's steps having been played.                *)
AudioQueueEmptyAtFrameEnd ==
    (pc = "idle" /\ session # None) => session[1].core.audio = <<>>

\* a frame in which a step ran has ended with an event still queued
AudioQueueEmptyAtFrameEndWitness ==
    /\ pc = "idle" /\ session # None /\ frame_advances >= 1
    /\ session[1].core.audio # <<>>

(* C17: every pass of the driver loop over a Local session terminates: the    *)
(* run of consecutive YesAndCheckAgain decisions of one real frame is finite, *)
(* and the frame ends on a run_criteria call that decides No.                 *)
DriverLoopTerminates ==
    /\ (IsLocal /\ pc # "idle") ~> (pc = "idle")
    /\ [][ (IsLocal /\ pc # "idle" /\ pc' = "idle") => pc = "loop" ]_vars

\* in the middle of a burst: a step has run and the accumulator asks for another
DriverLoopTerminatesWitness ==
    /\ IsLocal /\ pc = "loop"
    /\ session[1].loop_start # None /\ session[1].accumulator >= STEP

(* C18: in a networked session of local index k, k # 0 included, the edge     *)
(* fields written to slot k are computed against slot k's own previous        *)
(* record: jump_just_pressed (grab, shoot likewise) is true in slot k only on *)
(* the collection where the button is pressed and slot k did not hold it.     *)
NetworkEdgeAgainstOwnSlot ==
    [][ (IsNetwork /\ CollectionStep /\ ~Players[0].is_ai) =>
          LET k == session[1].player_idx[1]
              old == Players[k].control
              new == session'[1].core.players[k].control
          IN  /\ new.jump_just_pressed = (action_state'[0].jump /\ ~old.jump_pressed)
              /\ new.grab_just_pressed = (action_state'[0].grab /\ ~old.grab_pressed)
              /\ new.shoot_just_pressed = (action_state'[0].shoot /\ ~old.shoot_pressed) ]_vars

\* the step is a run_criteria call on a Local runner
LocalCriteriaStep == pc = "loop" /\ IsLocal /\ session' # None

\* the call finds a burst that has lasted longer than one STEP
AbortCall ==
    /\ session[1].loop_start # None
    /\ session[1].accumulator >= STEP
    /\ now - session[1].loop_start[1] > STEP

\* what the call adds to the accumulator before deciding
AddedDelta == IF session[1].loop_start = None THEN delta ELSE 0

(* C19 as stated: the Local runner's accumulator is never negative, each      *)
(* YesAndCheckAgain decision decreases it by exactly one STEP, and a No       *)
(* decision without abort leaves it unchanged.                                *)
AccumulatorStepsExact ==
    /\ [](IsLocal => session[1].accumulator >= 0)
    /\ [][ LocalCriteriaStep =>
             /\ pc' = "schedule" =>
                   session'[1].accumulator = session[1].accumulator - STEP
             /\ (pc' = "idle" /\ ~AbortCall) =>
                   session'[1].accumulator = session[1].accumulator ]_vars

(* C19, amended: the accumulator is never negative; on the first              *)
(* run_criteria call of a frame the frame's delta is added before the         *)
(* decision, and relative to that sum a YesAndCheckAgain decision takes       *)
(* exactly one STEP off and a No decision without abort takes nothing off.    *)
AccumulatorStepsExactAfterDelta ==
    /\ [](IsLocal => session[1].accumulator >= 0)
    /\ [][ LocalCriteriaStep =>
             /\ pc' = "schedule" =>
                   session'[1].accumulator
                      = session[1].accumulator + AddedDelta - STEP
             /\ (pc' = "idle" /\ ~AbortCall) =>
                   session'[1].accumulator = session[1].accumulator + AddedDelta ]_vars

\* the second YesAndCheckAgain of a burst has been decided, debt remaining
AccumulatorStepsExactAfterDeltaWitness ==
    /\ IsLocal /\ pc = "schedule" /\ frame_advances >= 1
    /\ session[1].accumulator > 0

(* C20: in a frame in which the engine is not in the in-game playing state or *)
(* no Session exists, the driver makes no run_criteria call and runs no step: *)
(* it does not enter its loop, and the runner's accumulator, loop_start and   *)
(* input table are not changed by it (the table changes only if               *)
(* SessionManager::restart is called, the runner only if a queued command     *)
(* replaces the Session).                                                     *)
WrongStateFrameDoesNothing ==
    [][ (pc = "idle" /\ ~(in_correct_state /\ session # None)) =>
          /\ pc' = "idle"
          /\ UNCHANGED << should_run, pending, delta, now >>
          /\ (session # None /\ commands' = commands) =>
               /\ session' # None
               /\ session'[1].accumulator = session[1].accumulator
               /\ session'[1].loop_start = session[1].loop_start
               /\ session'[1].core \in { session[1].core,
                                         CoreRestart(session[1].core) } ]_vars

\* a match that has run frames is paused: the time debt of its runner is kept
WrongStateFrameDoesNothingWitness ==
    /\ IsLocal /\ pc = "idle" /\ in_game_state = "Paused" /\ engine_state = "InGame"
    /\ session[1].accumulator > 0 /\ commands = <<>>

(* C21: at the end of every pass of the driver loop over a Local session the  *)
(* loop-start timestamp is cleared and the accumulator is in [0, STEP); so    *)
(* the frame's delta is added exactly once per real frame, on the frame's     *)
(* first run_criteria call and on no later one.                               *)
FrameEndsSettled ==
    /\ [](IsLocal /\ pc = "idle" =>
            /\ session[1].loop_start = None
            /\ session[1].accumulator >= 0
            /\ session[1].accumulator < STEP)
    /\ [][ LocalCriteriaStep =>
             ((session[1].loop_start = None) <=> (frame_advances = 0)) ]_vars

\* a frame of two steps has ended with a remainder of debt
FrameEndsSettledWitness ==
    /\ IsLocal /\ pc = "idle" /\ frame_advances >= 2
    /\ session[1].accumulator > 0 /\ session[1].loop_start = None

(* C22: the driver never accesses the Session while it is absent: after       *)
(* update_game has dropped the Session on Disconnected, no system of the same *)
(* schedule run and no further pass of the frame's loop requires it, and the  *)
(* frame unwinds without a missing-resource failure.                          *)
FrameUnwindsWithoutSession ==
    pc # "panicked"

\* the frame of a disconnect has ended in a missing-resource panic
FrameUnwindsWithoutSessionWitness ==
    disconnected /\ session = None /\ pc = "panicked"

\* ------------------------------------------------------- the grenade systems
GrenadesOf(gs, s) == Cardinality({ i \in DOMAIN gs : gs[i].spawner = s })
HydrateStep == stage = "PreUpdate" /\ stage' = "Update"
LitStep == stage = "Update" /\ stage' = "PostUpdate"
IdleStep == stage = "PostUpdate" /\ stage' = "Commands"
CommandsStep == stage = "Commands" /\ stage' = "Done"
Sounds(q, name) == Cardinality({ k \in DOMAIN q : q[k] = name })

\* C23: while the metadata of an element is not available, the grenade systems
\* skip it and change nothing about it: hydrate leaves the spawner un-hydrated
\* and spawns no grenade for it, update_lit_grenades leaves a lit grenade as it
\* is (its age included) and queues nothing for it, update_idle_grenades
\* leaves an idle grenade as it is and does not light it, and the commands
\* applied at the end of the step neither light nor kill it. A spawner that
\* was skipped is hydrated, with one new grenade, by the hydrate pass of a step
\* on which its metadata is available.
MissingMetadataSkips ==
    /\ [][ HydrateStep =>
             \A s \in Spawners :
                /\ ~element_assets[s] =>
                      /\ hydrated'[s] = hydrated[s]
                      /\ GrenadesOf(grenades', s) = GrenadesOf(grenades, s)
                /\ element_assets[s] /\ ~hydrated[s] =>
                      /\ hydrated'[s]
                      /\ GrenadesOf(grenades', s) = GrenadesOf(grenades, s) + 1 ]_vars
    /\ [][ LitStep \/ IdleStep =>
             \A i \in DOMAIN grenades :
                ~Meta(grenades[i]) =>
                   /\ grenades'[i] = grenades[i]
                   /\ hydrated'[grenades[i].spawner] = hydrated[grenades[i].spawner]
                   /\ i \notin Targets(command_queue', "light")
                   /\ i \notin Targets(command_queue', "explode") ]_vars
    /\ [][ (LitStep \/ IdleStep) /\ (\A i \in DOMAIN grenades : ~Meta(grenades[i])) =>
             UNCHANGED << audio_events, command_queue >> ]_vars
    /\ [][ CommandsStep /\ (\A i \in DOMAIN grenades : ~Meta(grenades[i])) =>
             UNCHANGED grenades ]_vars

\* the passes of one step have all run with the metadata of both elements
\* missing: spawner s was not hydrated, and a lit grenade kept its age
MissingMetadataSkipsWitness ==
    /\ stage = "Commands"
    /\ \E s \in Spawners : ~element_assets[s] /\ ~hydrated[s] /\ GrenadesOf(grenades, s) = 0
    /\ \E i \in DOMAIN grenades :
          /\ ~Meta(grenades[i]) /\ grenades[i].lit /\ grenades[i].age = FuseTime - 1
    /\ command_queue = <<>> /\ audio_events = <<>>

\* C24: a lit grenade explodes exactly once. On every step on which its
\* metadata is available its age grows by one step; on the first step on which
\* the age reaches fuse_time, and on no other, one explosion sound is queued
\* for it, its spawner is un-hydrated and its kill is queued; the entity is
\* gone, with one damage region spawned for it, before the next step begins;
\* the next hydrate pass spawns exactly one new idle grenade for the spawner;
\* and a spawner never has more than one live grenade.
LitGrenadeExplodesOnce ==
    /\ [](\A s \in Spawners : GrenadesOf(grenades, s) <= 1)
    /\ [](stage \in {"Done", "PreUpdate", "Update"} =>
            /\ \A i \in DOMAIN grenades : grenades[i].lit => grenades[i].age < FuseTime
            /\ \A s \in Spawners : hydrated[s] <=> GrenadesOf(grenades, s) = 1)
    /\ [](stage = "Done" => Sounds(audio_events, "explosion_sound") = spawned_regions)
    /\ [][ LitStep =>
             /\ \A i \in DOMAIN grenades :
                   grenades[i].lit /\ Meta(grenades[i]) =>
                      /\ grenades'[i].age = grenades[i].age + 1
                      /\ (grenades'[i].age >= FuseTime) <=>
                            i \in Targets(command_queue', "explode")
                      /\ grenades'[i].age >= FuseTime => ~hydrated'[grenades[i].spawner]
             /\ Sounds(audio_events', "explosion_sound")
                   = Sounds(audio_events, "explosion_sound")
                       + Cardinality(Targets(command_queue', "explode"))
             /\ Len(command_queue') = Cardinality(Targets(command_queue', "explode")) ]_vars
    /\ [][ CommandsStep =>
             /\ Len(grenades') = Len(grenades)
                                   - Cardinality(Targets(command_queue, "explode"))
             /\ spawned_regions' = Cardinality(Targets(command_queue, "explode")) ]_vars
    /\ [][ HydrateStep =>
             \A s \in Spawners :
                element_assets[s] /\ ~hydrated[s] /\ GrenadesOf(grenades, s) = 0 =>
                   \E i \in DOMAIN grenades' :
                      /\ grenades'[i] = NewIdleGrenade(s)
                      /\ GrenadesOf(grenades', s) = 1 ]_vars

\* a grenade has exploded in the step that just ended: its sound and its
\* damage region are there, the entity is gone and its spawner is un-hydrated
LitGrenadeExplodesOnceWitness ==
    /\ stage = "Done"
    /\ spawned_regions = 1
    /\ Sounds(audio_events, "explosion_sound") = 1
    /\ \E s \in Spawners : ~hydrated[s] /\ GrenadesOf(grenades, s) = 0 /\ element_assets[s]

\* ------------------------------------------------- the particle controllers
\* the controllers that serve the pair: spawned for a player of that id, with
\* the parameters of that id
ControllersOf(p) ==
    { k \in DOMAIN active :
         scene[active[k].handler].id = p[1] /\ active[k].params = p[2] }

\* after a network update every controller left has an owner that exists and
\* has a weapon effect position, and exactly the others are gone
NetworkUpdateKeepsLiveOwners ==
    [][ network_update =>
          /\ \A k \in DOMAIN active' :
                /\ scene[active'[k].handler].alive
                /\ scene[active'[k].handler].weapon_effect
          /\ \A k \in DOMAIN active :
                k \notin DOMAIN active' <=> need_to_delete(active[k]) ]_vars

\* C25: at any point of any sequence of spawn_or_update and network_update,
\* every (player id, params id) pair that was spawned and not removed has
\* exactly one active controller, and every controller serves such a pair;
\* and after each network_update every remaining controller has an owner that
\* still exists and has a weapon effect position, all others being removed.
OneControllerPerSpawnedPair ==
    /\ [](/\ \A p \in spawned_pairs : Cardinality(ControllersOf(p)) = 1
          /\ \A k \in DOMAIN active :
                << scene[active[k].handler].id, active[k].params >> \in spawned_pairs
          /\ Cardinality(DOMAIN active) = Cardinality(spawned_pairs))
    /\ NetworkUpdateKeepsLiveOwners

\* two distinct pairs have been spawned and neither removed, and there is one
\* controller
OneControllerPerSpawnedPairWitness ==
    /\ Cardinality(spawned_pairs) = 2
    /\ Cardinality(DOMAIN active) = 1
    /\ \E p, q \in spawned_pairs : p # q /\ Hash(p[1], p[2]) = Hash(q[1], q[2])

\* supporting C25: what the code keeps is one controller per key, the key of
\* every pair spawned and not removed being there
OneControllerPerKey ==
    /\ \A p \in spawned_pairs : Hash(p[1], p[2]) \in DOMAIN active
    /\ \A k \in DOMAIN active : \E p \in spawned_pairs : Hash(p[1], p[2]) = k

====
